---- MODULE Spec2Model ----
(***************************************************************************)
(* Model of the chat endpoint (src/app/api/chat/route.ts).                 *)
(*                                                                         *)
(* route.ts holds two variants of the handler: lines 1-77 ("lazy": the     *)
(* provider client is built inside the handler, no rate limit, the catch   *)
(* block answers with the exception's message) and lines 79-179            *)
(* ("limited": module-level client, in-memory rate limit, generic error).  *)
(* The variable "variant" says which one is deployed.                      *)
(*                                                                         *)
(* Text is modelled in two ways.  Header values and client keys are        *)
(* sequences of one-character strings.  Message contents, which can be     *)
(* thousands of characters long, are run-length encoded: a sequence of     *)
(* runs [c |-> character, n |-> repetitions], n >= 1, adjacent runs        *)
(* holding different characters.                                           *)
(*                                                                         *)
(* The page (src/app/page.tsx) is modelled next to the endpoint: its React *)
(* state, the values its last render closed over, and its fetches that     *)
(* have not settled.  Text of the page is a sequence of tokens, a token    *)
(* being one character or one literal of the source (written in ASCII).    *)
(***************************************************************************)
EXTENDS Integers, Sequences, FiniteSets, TLC

VARIABLES
    variant,     \* "lazy" (route.ts 1-77) or "limited" (route.ts 79-179)
    credential,  \* TRUE iff process.env.GEMINI_API_KEY is set
    module,      \* "unloaded", "loaded" or "crashed" (module evaluation threw)
    ai,          \* where the provider client was constructed: "none", "load", "request"
    now,         \* Date.now(), in milliseconds
    hits,        \* the rate-limit table: key -> [count, resetAt]
    slot,        \* the requests being handled, and the last response of each slot
    seen,        \* per key, the arrivals as a client observes them (history)
    page,        \* the state of Page: [messages, input, loading]
    view,        \* the values the last render of Page closed over
    inflight,    \* the fetches of Page that have not settled
    sent,        \* the number of fetches Page has started (history)
    event        \* the last handler of Page that ran (history)

uiVars == <<page, view, inflight, sent, event>>

vars == <<variant, credential, module, ai, now, hits, slot, seen, uiVars>>

-----------------------------------------------------------------------------
(* Bounds of the model. *)

\* The clock stops advancing here.
MaxNow == 61500

\* The longest conversation supplied in a request body.
MaxMsgs == 22

\* The fetches a page starts.
MaxTurns == 2

-----------------------------------------------------------------------------
(* Program constants. *)

LIMIT == 30
WINDOW_MS == 60000
MAX_MESSAGES == 20
MAX_CHARS_PER_MSG == 4000

Max(a, b) == IF a >= b THEN a ELSE b
Min(a, b) == IF a <= b THEN a ELSE b

-----------------------------------------------------------------------------
(* Character strings: String.prototype.split(",")[0], trim, String(n). *)

WS == {" ", "\t", "\n"}

\* s.split(",")[0]: the characters before the first comma (all of s if none).
RECURSIVE SplitFirst(_)
SplitFirst(s) ==
    IF s = <<>> \/ Head(s) = "," THEN <<>>
    ELSE <<Head(s)>> \o SplitFirst(Tail(s))

RECURSIVE TrimStart(_)
TrimStart(s) ==
    IF s # <<>> /\ Head(s) \in WS THEN TrimStart(Tail(s)) ELSE s

RECURSIVE TrimEnd(_)
TrimEnd(s) ==
    IF s # <<>> /\ s[Len(s)] \in WS THEN TrimEnd(SubSeq(s, 1, Len(s) - 1)) ELSE s

\* s.trim()
Trim(s) == TrimEnd(TrimStart(s))

Digit == <<"0", "1", "2", "3", "4", "5", "6", "7", "8", "9">>

\* String(n) for an integer n >= 0: its decimal digits.
RECURSIVE String(_)
String(n) ==
    IF n < 10 THEN <<Digit[n + 1]>>
    ELSE String(n \div 10) \o <<Digit[(n % 10) + 1]>>

\* Math.ceil(ms / 1000) on integers (\div rounds towards minus infinity).
CeilSeconds(ms) == -((-ms) \div 1000)

-----------------------------------------------------------------------------
(* Run-length encoded text: length, slice(0, n), trim().length = 0. *)

RECURSIVE TextLen(_)
TextLen(t) == IF t = <<>> THEN 0 ELSE Head(t).n + TextLen(Tail(t))

\* t.slice(0, n): the first n characters of t.
RECURSIVE SliceTo(_, _)
SliceTo(t, n) ==
    IF t = <<>> \/ n <= 0 THEN <<>>
    ELSE IF Head(t).n >= n THEN <<[c |-> Head(t).c, n |-> n]>>
    ELSE <<Head(t)>> \o SliceTo(Tail(t), n - Head(t).n)

\* t.trim().length = 0: every character of t is white space.
IsBlank(t) == \A i \in 1..Len(t) : t[i].c \in WS

Run(c, n) == [c |-> c, n |-> n]


-----------------------------------------------------------------------------
(* JSON values of a request body. *)

\* The content field of a message: a string, null/absent, or a number.
StrContent(t) == [t |-> "str", s |-> t, n |-> 0]
NullContent == [t |-> "null", s |-> <<>>, n |-> 0]
NumContent(n) == [t |-> "num", s |-> <<>>, n |-> n]

\* An element of messages[]: an object with role and content, or JSON null.
Msg(role, content) == [isNull |-> FALSE, role |-> role, content |-> content]
NullMsg == [isNull |-> TRUE, role |-> "", content |-> NullContent]

\* (m.content ?? "").toString()
ContentToString(content) ==
    CASE content.t = "str" -> content.s
      [] content.t = "null" -> <<>>
      [] content.t = "num" -> <<Run(Digit[content.n + 1], 1)>>

\* The parsed body.  shape: "invalid" (req.json() rejects), "null", "scalar",
\* "nomessages" (an object without messages), "nonarray" (messages is not an
\* array), "array".
Body(shape, messages) == [shape |-> shape, messages |-> messages]

-----------------------------------------------------------------------------
(* rateLimit (route.ts 88-99), on the table h at time t.  retryAfterMs = -1   *)
(* stands for the absent field of { ok: true }.                               *)

\* rateLimit with the cap compared by > instead of >=.
rateLimit_capOffByOne(h, key, limit, windowMs, t) ==
    IF key \notin DOMAIN h \/ t > h[key].resetAt
    THEN [ok |-> TRUE, retryAfterMs |-> -1,
          hits |-> (key :> [count |-> 1, resetAt |-> t + windowMs]) @@ h]
    ELSE IF h[key].count > limit
    THEN [ok |-> FALSE, retryAfterMs |-> h[key].resetAt - t, hits |-> h]
    ELSE [ok |-> TRUE, retryAfterMs |-> -1,
          hits |-> [h EXCEPT ![key].count = @ + 1]]

\* rateLimit extending an expired window instead of starting one at t.
rateLimit_extendWindow(h, key, limit, windowMs, t) ==
    IF key \notin DOMAIN h
    THEN [ok |-> TRUE, retryAfterMs |-> -1,
          hits |-> (key :> [count |-> 1, resetAt |-> t + windowMs]) @@ h]
    ELSE IF t > h[key].resetAt
    THEN [ok |-> TRUE, retryAfterMs |-> -1,
          hits |-> [h EXCEPT ![key] =
                      [count |-> 1, resetAt |-> h[key].resetAt + windowMs]]]
    ELSE IF h[key].count >= limit
    THEN [ok |-> FALSE, retryAfterMs |-> h[key].resetAt - t, hits |-> h]
    ELSE [ok |-> TRUE, retryAfterMs |-> -1,
          hits |-> [h EXCEPT ![key].count = @ + 1]]

\* rateLimit as a sliding window: every admitted request moves the reset time.
rateLimit_sliding(h, key, limit, windowMs, t) ==
    IF key \notin DOMAIN h \/ t > h[key].resetAt
    THEN [ok |-> TRUE, retryAfterMs |-> -1,
          hits |-> (key :> [count |-> 1, resetAt |-> t + windowMs]) @@ h]
    ELSE IF h[key].count >= limit
    THEN [ok |-> FALSE, retryAfterMs |-> h[key].resetAt - t, hits |-> h]
    ELSE [ok |-> TRUE, retryAfterMs |-> -1,
          hits |-> [h EXCEPT ![key] =
                      [count |-> h[key].count + 1, resetAt |-> t + windowMs]]]

\* rateLimit counting the rejected requests too.
rateLimit_countsRejected(h, key, limit, windowMs, t) ==
    IF key \notin DOMAIN h \/ t > h[key].resetAt
    THEN [ok |-> TRUE, retryAfterMs |-> -1,
          hits |-> (key :> [count |-> 1, resetAt |-> t + windowMs]) @@ h]
    ELSE IF h[key].count >= limit
    THEN [ok |-> FALSE, retryAfterMs |-> h[key].resetAt - t,
          hits |-> [h EXCEPT ![key].count = @ + 1]]
    ELSE [ok |-> TRUE, retryAfterMs |-> -1,
          hits |-> [h EXCEPT ![key].count = @ + 1]]

rateLimit(h, key, limit, windowMs, t) ==
    IF key \notin DOMAIN h \/ t > h[key].resetAt
    THEN [ok |-> TRUE, retryAfterMs |-> -1,
          hits |-> (key :> [count |-> 1, resetAt |-> t + windowMs]) @@ h]
    ELSE IF h[key].count >= limit
    THEN [ok |-> FALSE, retryAfterMs |-> h[key].resetAt - t, hits |-> h]
    ELSE [ok |-> TRUE, retryAfterMs |-> -1,
          hits |-> [h EXCEPT ![key].count = @ + 1]]

\* The retry-after header of the 429 response (route.ts 127).
retryAfterHeader(rl) ==
    String(CeilSeconds(IF rl.retryAfterMs = -1 THEN 0 ELSE rl.retryAfterMs))

-----------------------------------------------------------------------------
(* clampMessages (route.ts 16-27 and 101-112). *)

\* slice(0, MAX_MESSAGES) in place of slice(-MAX_MESSAGES): the oldest kept.
lastMessages_oldest(messages) ==
    SubSeq(messages, 1, Min(Len(messages), MAX_MESSAGES))

\* messages.slice(-MAX_MESSAGES)
lastMessages(messages) ==
    SubSeq(messages, Max(1, Len(messages) - MAX_MESSAGES + 1), Len(messages))

\* m.role of a null element raises a TypeError inside map().
clampThrows(messages) ==
    \E i \in 1..Len(lastMessages(messages)) : lastMessages(messages)[i].isNull

\* The map() without the truncation of the content.
clampOne_untruncated(m) ==
    [role |-> m.role, content |-> ContentToString(m.content)]

\* One element of the map(): role kept, content truncated.
clampOne(m) ==
    [role |-> m.role,
     content |-> SliceTo(ContentToString(m.content), MAX_CHARS_PER_MSG)]

\* The filter testing content.length instead of content.trim().length.
usable_untrimmed(m) == m.content # <<>>

usable(m) == ~IsBlank(m.content)

clampMessages(messages) ==
    LET sliced == lastMessages(messages)
        trimmed == [i \in 1..Len(sliced) |-> clampOne(sliced[i])]
    IN SelectSeq(trimmed, usable)

\* The provider's contents (route.ts 50-53 and 151-154).
toContents(messages) ==
    [i \in 1..Len(messages) |->
        [role |-> IF messages[i].role = "assistant" THEN "model" ELSE "user",
         text |-> messages[i].content]]

-----------------------------------------------------------------------------
(* Errors and the catch blocks. *)

\* A thrown value: err.message is a string, or err carries no string message.
Err(message) == [hasMessage |-> TRUE, message |-> message]
NoMessageErr == [hasMessage |-> FALSE, message |-> ""]
NoErr == [hasMessage |-> FALSE, message |-> "-"]

MissingKeyMessage == "Missing GEMINI_API_KEY environment variable."
SyntaxErrorMessage == "Unexpected end of JSON input"
TypeErrorMessage == "Cannot read properties of null"
FetchFailedMessage == "fetch failed"

\* msg.includes("GEMINI_API_KEY")
includesKeyName(msg) == msg = MissingKeyMessage

\* The body and status of the catch block: route.ts 67-76 ("lazy") answers
\* with err.message, route.ts 172-178 ("limited") with a fixed string.
catchResponse(v, err) ==
    IF v = "lazy"
    THEN LET msg == IF err.hasMessage THEN err.message ELSE "Server error"
         IN [status |-> IF includesKeyName(msg) THEN 500 ELSE 500, error |-> msg]
    ELSE [status |-> 500, error |-> "Server error"]

-----------------------------------------------------------------------------
(* The provider SDK (@google/genai), an opaque collaborator. *)

\* new GoogleGenAI(...): whether the constructor accepts a missing key is
\* decided by the SDK, not by this repository: both outcomes are possible.
newGoogleGenAI(hasKey) == IF hasKey THEN {"ok"} ELSE {"ok", "throw"}

TextOf(present, v) == [present |-> present, v |-> v]

\* ai.models.generateContent(...): resolves with response.text a string or
\* undefined, or rejects; without a credential the call cannot succeed.
generateContent(hasKey) ==
    IF hasKey
    THEN {[ok |-> TRUE, text |-> TextOf(TRUE, "hello"), err |-> NoErr],
          [ok |-> TRUE, text |-> TextOf(TRUE, ""), err |-> NoErr],
          [ok |-> TRUE, text |-> TextOf(FALSE, ""), err |-> NoErr],
          [ok |-> FALSE, text |-> TextOf(FALSE, ""), err |-> Err(FetchFailedMessage)],
          [ok |-> FALSE, text |-> TextOf(FALSE, ""), err |-> NoMessageErr]}
    ELSE {[ok |-> FALSE, text |-> TextOf(FALSE, ""), err |-> Err(FetchFailedMessage)]}

-----------------------------------------------------------------------------
(* Requests. *)

Header(v) == [present |-> TRUE, v |-> v]
NoHeader == [present |-> FALSE, v |-> <<>>]

Unknown == <<"u", "n", "k", "n", "o", "w", "n">>

\* The client key (route.ts 116-119).
clientKey(xff, xri) ==
    IF xff.present THEN Trim(SplitFirst(xff.v))
    ELSE IF xri.present THEN xri.v
    ELSE Unknown

Slots == {1, 2}

NoReply == [kind |-> "none", v |-> ""]
ErrorReply(msg) == [kind |-> "error", v |-> msg]
TextReply(txt) == [kind |-> "text", v |-> txt]

\* A slot: the request it handles (pc "json": suspended at await req.json();
\* "provider": suspended at await generateContent) or the response it gave
\* (pc "done").  ordinal, promised and resetAt are history: the request's
\* position among its key's arrivals of the window, the time the key's
\* previous response, a 429, told the client to come back at (-1: none), and
\* the reset time of the key's entry when rateLimit returned.
Idle ==
    [pc |-> "idle", xff |-> NoHeader, xri |-> NoHeader,
     key |-> <<>>, body |-> Body("invalid", <<>>), at |-> 0,
     status |-> 0, retryAfter |-> <<>>, reply |-> NoReply, contents |-> <<>>,
     calls |-> 0, thrown |-> NoErr, ordinal |-> 0, promised |-> -1,
     resetAt |-> 0]

\* The value of a decimal string, as a client reads the retry-after header.
RECURSIVE ParseInt(_)
ParseInt(s) ==
    IF s = <<>> THEN 0
    ELSE 10 * ParseInt(SubSeq(s, 1, Len(s) - 1))
         + (CHOOSE d \in 0..9 : Digit[d + 1] = s[Len(s)])

\* The client's view of a key's arrivals: the window is measured from its
\* first request; n counts the arrivals in it (LIMIT + 1 stands for more).
observe(sn, key, t, rejected, retryAt) ==
    LET fresh == key \notin DOMAIN sn \/ t - sn[key].start > WINDOW_MS
        n == IF fresh THEN 1 ELSE Min(sn[key].n + 1, LIMIT + 1)
        start == IF fresh THEN t ELSE sn[key].start
    IN (key :> [start |-> start, n |-> n,
                retryAt |-> IF rejected THEN retryAt ELSE -1]) @@ sn

-----------------------------------------------------------------------------
(* The page: messages and the result of a fetch. *)

PageMsg(role, content) == [role |-> role, content |-> content]

\* The greeting of a new page (page.tsx 9) and of a cleared one (68).
Greeting ==
    PageMsg("assistant",
            <<"Hey! I'm your Gemini chatbot. What are we building today?">>)
ClearedGreeting == PageMsg("assistant", <<"Cleared. What should we do next?">>)

NoResponse == <<"(no response)">>
SorryPrefix == <<"Sorry - something went wrong.", "\n">>

\* The state of a new page (page.tsx 8-12).
InitialPage == [messages |-> <<Greeting>>, input |-> <<>>, loading |-> FALSE]

\* The ways a fetch settles: it rejects with an error (message: the text of
\* e.message, absent when e has none), or it resolves with a response of a
\* status, a body text and, when the body parses as JSON, the text field of
\* the parsed value (absent when the value has no string there).
Rejected(message) == [kind |-> "reject", message |-> message]
Resolved(status, raw, json, text) ==
    [kind |-> "response", status |-> status, raw |-> raw, json |-> json,
     text |-> text]
NoText == [present |-> FALSE, v |-> <<>>]
Text(v) == [present |-> TRUE, v |-> v]

\* res.ok
ok(status) == status \in 200..299

\* The content of the assistant message appended when a fetch settles
\* (page.tsx 41-61).
replyContent(out) ==
    IF out.kind = "reject"
    THEN SorryPrefix \o (IF out.message.present THEN out.message.v ELSE <<>>)
    ELSE IF ~ok(out.status)
    THEN SorryPrefix \o (IF out.raw # <<>> THEN out.raw
                         ELSE <<"Request failed (">> \o String(out.status) \o <<")">>)
    ELSE IF ~out.json
    THEN SorryPrefix \o <<SyntaxErrorMessage>>
    ELSE LET textResponse == IF out.text.present THEN out.text.v ELSE <<>>
         IN IF Trim(textResponse) # <<>> THEN Trim(textResponse) ELSE NoResponse

\* canSend (page.tsx 17).
canSend(v) == Trim(v.input) # <<>> /\ ~v.loading

\* send returns at page.tsx 25.
sendReturns(v) == Trim(v.input) = <<>> \/ v.loading

\* next (page.tsx 30-31), computed from the values send closed over.
nextMessages(v) == Append(v.messages, PageMsg("user", Trim(v.input)))

-----------------------------------------------------------------------------
(* The state machine. *)

InitCommon ==
    /\ credential \in BOOLEAN
    /\ module = "unloaded"
    /\ ai = "none"
    /\ now = 0
    /\ hits = <<>>
    /\ slot = [s \in Slots |-> Idle]
    /\ seen = <<>>
    /\ page = InitialPage
    /\ view = InitialPage
    /\ inflight = <<>>
    /\ sent = 0
    /\ event = "none"

\* The deployed handler is the rate-limited one (route.ts 79-179).
Init == variant = "limited" /\ InitCommon

\* Either variant of route.ts is deployed.
InitVariants == variant \in {"lazy", "limited"} /\ InitCommon

\* Module evaluation: route.ts 83 constructs the client at load time in the
\* "limited" variant; the "lazy" variant constructs nothing.
Load ==
    /\ module = "unloaded"
    /\ IF variant = "limited"
       THEN /\ ai' = "load"
            /\ \E r \in newGoogleGenAI(credential) :
                   module' = IF r = "ok" THEN "loaded" ELSE "crashed"
       ELSE /\ ai' = ai
            /\ module' = "loaded"
    /\ UNCHANGED <<variant, credential, now, hits, slot, seen, uiVars>>

\* Date.now() advances.
Tick(d) ==
    /\ module = "loaded"
    /\ now + d <= MaxNow
    /\ now' = now + d
    /\ UNCHANGED <<variant, credential, module, ai, hits, slot, seen, uiVars>>

\* POST up to its first await (route.ts 114-133; 29-31 in the "lazy"
\* variant, which neither derives a key nor limits).
Arrive(s, xff, xri, body) ==
    /\ module = "loaded"
    /\ slot[s].pc \in {"idle", "done"}
    /\ IF variant = "limited"
       THEN LET ip == clientKey(xff, xri)
                rl == rateLimit(hits, ip, LIMIT, WINDOW_MS, now)
                hdr == retryAfterHeader(rl)
                sn == observe(seen, ip, now, ~rl.ok, now + 1000 * ParseInt(hdr))
                req == [Idle EXCEPT !.xff = xff, !.xri = xri,
                                    !.key = ip, !.body = body, !.at = now,
                                    !.ordinal = sn[ip].n,
                                    !.resetAt = rl.hits[ip].resetAt,
                                    !.promised = IF ip \in DOMAIN seen
                                                 THEN seen[ip].retryAt ELSE -1]
            IN /\ hits' = rl.hits
               /\ seen' = sn
               /\ slot' = [slot EXCEPT ![s] =
                     IF rl.ok
                     THEN [req EXCEPT !.pc = "json"]
                     ELSE [req EXCEPT !.pc = "done", !.status = 429,
                                      !.retryAfter = hdr,
                                      !.reply = ErrorReply("Rate limit exceeded")]]
       ELSE /\ slot' = [slot EXCEPT ![s] =
                     [Idle EXCEPT !.pc = "json", !.xff = xff, !.xri = xri,
                                  !.body = body, !.at = now]]
            /\ UNCHANGED <<hits, seen>>
    /\ UNCHANGED <<variant, credential, module, ai, now, uiVars>>

\* getAiClient (route.ts 7-14) throws when the environment holds no key.
getAiClientThrows == ~credential

\* A truthiness test, !body.messages, in place of Array.isArray.
isArray_truthy(b) == b.shape \in {"array", "nonarray"}

\* Array.isArray(body.messages) (route.ts 33 and 134).
isArray(b) == b.shape = "array"

\* clampMessages(body.messages) raises: slice/map of a value that is no
\* array, or a null element.
clampRaises(b) == b.shape # "array" \/ clampThrows(b.messages)

\* The request of slot s answered by the catch block.
caught(r, err) ==
    LET resp == catchResponse(variant, err)
    IN [r EXCEPT !.pc = "done", !.status = resp.status,
                 !.reply = ErrorReply(resp.error), !.thrown = err]

badRequest(r, msg) ==
    [r EXCEPT !.pc = "done", !.status = 400, !.reply = ErrorReply(msg)]

\* POST from the resolution of req.json() to the provider call or an early
\* response (route.ts 133-167; 31-62 in the "lazy" variant).
afterJson(r) ==
    LET b == r.body IN
    CASE b.shape = "invalid" -> caught(r, Err(SyntaxErrorMessage))
      [] b.shape = "null" -> caught(r, Err(TypeErrorMessage))
      [] OTHER ->
            IF ~isArray(b) THEN badRequest(r, "Missing messages[]")
            ELSE IF clampRaises(b) THEN caught(r, Err(TypeErrorMessage))
            ELSE IF clampMessages(b.messages) = <<>>
            THEN badRequest(r, "No usable messages")
            ELSE IF variant = "lazy" /\ getAiClientThrows
            THEN caught(r, Err(MissingKeyMessage))
            ELSE [r EXCEPT !.pc = "provider",
                           !.contents = toContents(clampMessages(b.messages)),
                           !.calls = @ + 1]

\* A handler that gives the unit back when it answers 400.
JsonResolved_refund(s) ==
    /\ slot[s].pc = "json"
    /\ slot' = [slot EXCEPT ![s] = afterJson(slot[s])]
    /\ ai' = IF variant = "lazy" /\ slot'[s].pc = "provider" THEN "request" ELSE ai
    /\ hits' = IF variant = "limited" /\ slot'[s].status = 400
               THEN [hits EXCEPT ![slot[s].key].count = @ - 1]
               ELSE hits
    /\ UNCHANGED <<variant, credential, module, now, seen, uiVars>>

JsonResolved(s) ==
    /\ slot[s].pc = "json"
    /\ slot' = [slot EXCEPT ![s] = afterJson(slot[s])]
    /\ ai' = IF variant = "lazy" /\ slot'[s].pc = "provider" THEN "request" ELSE ai
    /\ UNCHANGED <<variant, credential, module, now, hits, seen, uiVars>>

\* A handler that calls the provider a second time when the first call fails.
afterProvider_retryOnce(r, out) ==
    IF out.ok
    THEN [r EXCEPT !.pc = "done", !.status = 200,
                   !.reply = TextReply(IF out.text.present THEN out.text.v ELSE "")]
    ELSE IF r.calls < 2 THEN [r EXCEPT !.calls = @ + 1]
    ELSE caught(r, out.err)

\* POST after generateContent settles (route.ts 169-178; 64-76).
afterProvider(r, out) ==
    IF out.ok
    THEN [r EXCEPT !.pc = "done", !.status = 200,
                   !.reply = TextReply(IF out.text.present THEN out.text.v ELSE "")]
    ELSE caught(r, out.err)

ProviderSettled(s) ==
    /\ slot[s].pc = "provider"
    /\ \E out \in generateContent(credential) :
           slot' = [slot EXCEPT ![s] = afterProvider(slot[s], out)]
    /\ UNCHANGED <<variant, credential, module, ai, now, hits, seen, uiVars>>

-----------------------------------------------------------------------------
(* The page's handlers. *)

apiVars == <<variant, credential, module, ai, now, hits, slot, seen>>

\* The page is rendered with its current state: its handlers close over it
\* and its controls carry the disabled attributes it gives (page.tsx 92,
\* 123, 129).
Rendered == view = page

\* onChange of the input (page.tsx 119), delivered to an enabled input; the
\* update of a discrete event is rendered before the next event.
Type(v) ==
    /\ Rendered
    /\ ~view.loading
    /\ page' = [page EXCEPT !.input = v]
    /\ view' = page'
    /\ event' = "type"
    /\ UNCHANGED <<apiVars, inflight, sent>>

\* send (page.tsx 23-39), up to its await, run by the render "view": the
\* click of the Send button (128-129, disabled unless canSend) or Enter in
\* the input (120-123, disabled while loading).  The re-render it schedules is
\* the step Render.
Submit(how) ==
    /\ IF how = "click" THEN canSend(view) ELSE ~view.loading
    /\ event' = how
    /\ IF sendReturns(view)
       THEN UNCHANGED <<page, inflight, sent>>
       ELSE /\ sent < MaxTurns
            /\ page' = [input |-> <<>>, loading |-> TRUE,
                        messages |-> nextMessages(view)]
            /\ inflight' = Append(inflight, [messages |-> nextMessages(view)])
            /\ sent' = sent + 1
    /\ UNCHANGED <<apiVars, view>>

\* React renders the page with its current state.
Render ==
    /\ ~Rendered
    /\ view' = page
    /\ UNCHANGED <<apiVars, page, inflight, sent, event>>

\* The fetch at position i settles and send runs to its end (page.tsx
\* 41-64): one assistant message appended to the current messages, loading
\* cleared.
Settle(i, out) ==
    /\ i \in 1..Len(inflight)
    /\ page' = [page EXCEPT
                  !.messages = Append(@, PageMsg("assistant", replyContent(out))),
                  !.loading = FALSE]
    /\ inflight' = SubSeq(inflight, 1, i - 1) \o SubSeq(inflight, i + 1, Len(inflight))
    /\ event' = "settle"
    /\ UNCHANGED <<apiVars, view, sent>>

\* clearChat (page.tsx 67-70), the click of the Clear button (92, disabled
\* while loading).
Clear ==
    /\ Rendered
    /\ ~view.loading
    /\ page' = [page EXCEPT !.messages = <<ClearedGreeting>>]
    /\ view' = page'
    /\ event' = "clear"
    /\ UNCHANGED <<apiVars, inflight, sent>>

-----------------------------------------------------------------------------
(* Request bodies. *)

roleAt(i) == IF i % 2 = 1 THEN "user" ELSE "assistant"

\* The message at position i of a conversation, by kind.  Contents depend on
\* the position, so that two positions never hold equal messages.
MsgOf(kind, i) ==
    CASE kind = "text" -> Msg(roleAt(i), StrContent(<<Run("a", i)>>))
      [] kind = "padded" ->
            Msg(roleAt(i), StrContent(<<Run(" ", 1), Run("a", i), Run("\n", 1)>>))
      [] kind = "blank" -> Msg(roleAt(i), StrContent(<<Run(" ", i)>>))
      [] kind = "empty" -> Msg(roleAt(i), StrContent(<<>>))
      [] kind = "long" ->
            Msg(roleAt(i), StrContent(<<Run("a", MAX_CHARS_PER_MSG - 1), Run("b", 1 + i)>>))
      [] kind = "padlong" ->
            Msg(roleAt(i), StrContent(<<Run(" ", MAX_CHARS_PER_MSG), Run("a", i)>>))
      [] kind = "exact" -> Msg(roleAt(i), StrContent(<<Run("c", MAX_CHARS_PER_MSG)>>))
      [] kind = "null" -> Msg(roleAt(i), NullContent)
      [] kind = "num" -> Msg("system", NumContent(i % 10))
      [] kind = "nullmsg" -> NullMsg

\* A conversation of n messages of kind base, but for position p, of kind k.
Conv(n, base, p, k) ==
    [i \in 1..n |-> IF i = p THEN MsgOf(k, i) ELSE MsgOf(base, i)]

NonArrayBodies ==
    {Body(sh, <<>>) : sh \in {"invalid", "null", "scalar", "nomessages", "nonarray"}}

\* A few bodies of every class.
SmallBodies ==
    NonArrayBodies
    \cup {Body("array", <<>>),
          Body("array", Conv(1, "text", 0, "text")),
          Body("array", Conv(2, "blank", 2, "padlong")),
          Body("array", Conv(1, "null", 0, "text")),
          Body("array", Conv(1, "nullmsg", 0, "text"))}

Kinds ==
    {"text", "padded", "blank", "empty", "long", "padlong", "exact", "null",
     "num", "nullmsg"}

\* Conversations around the MAX_MESSAGES boundary, all text or all blank but
\* for one message of any kind, placed first, last or on either side of the
\* cut.
ConvLengths == {1, 2, MAX_MESSAGES, MAX_MESSAGES + 1, MaxMsgs}

RichBodies ==
    {Body("array", Conv(n, b, p, k)) :
        n \in ConvLengths, b \in {"text", "blank"},
        p \in 1..(MaxMsgs - MAX_MESSAGES + 1) \cup {MaxMsgs}, k \in Kinds}

-----------------------------------------------------------------------------
(* Specifications. *)

Deltas == {30000, 30500}

XffValues == {Header(<<"7", ",", " ", "8">>)}
XriValues == {NoHeader}

\* Requests of all body classes from one client key, handled one at a time,
\* while the clock advances.
Next ==
    \/ Load
    \/ \E d \in Deltas : Tick(d)
    \/ \E s \in {1}, xff \in XffValues, xri \in XriValues, body \in SmallBodies :
           Arrive(s, xff, xri, body)
    \/ \E s \in Slots : JsonResolved(s)
    \/ \E s \in Slots : ProviderSettled(s)

Spec == Init /\ [][Next]_vars

SpecVariants == InitVariants /\ [][Next]_vars

\* One request with a conversation of any shape: the states from its
\* admission, when it is suspended at await req.json(), to its response.
InitBody ==
    /\ variant = "limited"
    /\ credential \in BOOLEAN
    /\ module = "loaded"
    /\ ai = "load"
    /\ now = 0
    /\ \E body \in RichBodies :
          LET ip == clientKey(Header(<<"7">>), NoHeader)
              rl == rateLimit(<<>>, ip, LIMIT, WINDOW_MS, 0)
          IN /\ hits = rl.hits
             /\ seen = observe(<<>>, ip, 0, ~rl.ok, 0)
             /\ slot = [s \in Slots |->
                          IF s = 1
                          THEN [Idle EXCEPT !.pc = "json",
                                            !.xff = Header(<<"7">>), !.key = ip,
                                            !.body = body, !.ordinal = 1,
                                            !.resetAt = rl.hits[ip].resetAt]
                          ELSE Idle]
    /\ page = InitialPage
    /\ view = InitialPage
    /\ inflight = <<>>
    /\ sent = 0
    /\ event = "none"

NextBody ==
    \/ JsonResolved(1)
    \/ ProviderSettled(1)

SpecBody == InitBody /\ [][NextBody]_vars

\* A body that passes validation and one that does not.
ValidBody == Body("array", Conv(1, "text", 0, "text"))
InvalidBody == Body("nonarray", <<>>)

\* Two client keys ("7" and "unknown"), requests handled one at a time.
NextKeys ==
    \/ Load
    \/ Tick(30500)
    \/ \E xff \in {Header(<<"7">>), NoHeader} :
           Arrive(1, xff, NoHeader, InvalidBody)
    \/ JsonResolved(1)

SpecKeys == Init /\ [][NextKeys]_vars

\* Header values: absent, empty, blank, one address, a padded address, a
\* list, and lists whose first entry is empty or blank.
XffAll ==
    {NoHeader, Header(<<>>), Header(<<" ">>), Header(<<"7">>),
     Header(<<" ", "7", " ">>), Header(<<"7", ",", " ", "8">>),
     Header(<<",", "8">>), Header(<<" ", ",", "8">>)}

XriAll == {NoHeader, Header(<<"9">>), Header(<<" ", "9">>)}

\* The requests a key sends in the runs of SpecHeaders.
MaxHeaderRequests == 2

\* Requests with every combination of the two address headers, a few per key.
NextHeaders ==
    \/ Load
    \/ \E xff \in XffAll, xri \in XriAll :
           /\ \A k \in DOMAIN hits : hits[k].count < MaxHeaderRequests
           /\ Arrive(1, xff, xri, InvalidBody)
    \/ JsonResolved(1)

SpecHeaders == Init /\ [][NextHeaders]_vars

\* One client key, two requests handled at a time: a request arrives while
\* another is suspended at one of its awaits, in one window or in the next.
NextRace ==
    \/ Load
    \/ Tick(WINDOW_MS + 1)
    \/ \E s \in Slots : Arrive(s, Header(<<"7">>), NoHeader, ValidBody)
    \/ \E s \in Slots : JsonResolved(s)
    \/ \E s \in Slots : ProviderSettled(s)

SpecRace == Init /\ [][NextRace]_vars

\* What the user types: nothing, a blank, a word, a padded word.
PageInputs == {<<>>, <<" ">>, <<"a">>, <<" ", "b", " ">>}

\* How a fetch settles: 200 with a text, a padded text, a blank text, no
\* text, or a body that is not JSON; 429 with the endpoint's error body; 500
\* with an empty body; a network error, with and without a message.
Outcomes ==
    {Resolved(200, <<"{text}">>, TRUE, Text(<<"o", "k">>)),
     Resolved(200, <<"{text}">>, TRUE, Text(<<" ", "o", "k", "\n">>)),
     Resolved(200, <<"{text}">>, TRUE, Text(<<" ">>)),
     Resolved(200, <<"{}">>, TRUE, NoText),
     Resolved(200, <<"<html>">>, FALSE, NoText),
     Resolved(429, <<"{error: Rate limit exceeded}">>, TRUE, NoText),
     Resolved(500, <<>>, FALSE, NoText),
     Rejected(Text(<<"Failed to fetch">>)),
     Rejected(NoText)}

\* One page: the user types, submits with the button or the Enter key and
\* clears; fetches settle in any order.  A submit can be delivered to the
\* render that handled the previous event, before the page re-renders.
NextPage ==
    \/ \E v \in PageInputs : Type(v)
    \/ \E how \in {"click", "enter"} : Submit(how)
    \/ Render
    \/ \E i \in 1..MaxTurns, out \in Outcomes : Settle(i, out)
    \/ Clear

SpecPage == Init /\ [][NextPage]_vars

\* The page when every submit is delivered after the re-render that the
\* previous event scheduled.
NextPageRendered ==
    \/ \E v \in PageInputs : Type(v)
    \/ \E how \in {"click", "enter"} : Rendered /\ Submit(how)
    \/ Render
    \/ \E i \in 1..MaxTurns, out \in Outcomes : Settle(i, out)
    \/ Clear

SpecPageRendered == Init /\ [][NextPageRendered]_vars

\* The fetches settle and the page re-renders.
SpecPageFair ==
    /\ SpecPage
    /\ WF_vars(\E i \in 1..MaxTurns, out \in Outcomes : Settle(i, out))
    /\ WF_vars(Render)

-----------------------------------------------------------------------------
(* The rate limiter. *)

\* The slots that hold a request or a response.
Used == {s \in Slots : slot[s].pc # "idle"}
Done == {s \in Slots : slot[s].pc = "done"}

\* C1: the first 30 requests of a key that arrive within 60 seconds of the
\* first request of a window are admitted (none is answered 429), and the
\* 31st request of the key inside the window is answered 429.
C1_First30Admitted31stRejected ==
    \A s \in Used :
        /\ slot[s].ordinal \in 1..LIMIT => slot[s].status # 429
        /\ slot[s].ordinal = LIMIT + 1 =>
              slot[s].pc = "done" /\ slot[s].status = 429

\* The 30th request of a window admitted, and a later request of the same
\* window, arriving after the clock advanced, rejected.
C1_Witness ==
    \E s \in Done :
        /\ slot[s].ordinal = LIMIT + 1
        /\ slot[s].status = 429
        /\ slot[s].at > seen[slot[s].key].start
        /\ hits[slot[s].key].count = LIMIT

\* C2: every 429 response carries a retry-after header holding a positive
\* integer, the seconds from the arrival to the key's window reset rounded
\* up, between 1 and 60.
C2_RetryAfterPositive ==
    \A s \in Done :
        slot[s].status = 429 =>
            /\ slot[s].retryAfter # <<>>
            /\ ParseInt(slot[s].retryAfter) \in 1..60
            /\ 1000 * ParseInt(slot[s].retryAfter) >= slot[s].resetAt - slot[s].at
            /\ 1000 * (ParseInt(slot[s].retryAfter) - 1) < slot[s].resetAt - slot[s].at

\* C3: after a 429 with retry-after r for a request arriving at t, the next
\* request of the key, when it arrives at t + r seconds or later, is not
\* answered 429.
C3_AdmittedAfterAdvertisedDelay ==
    \A s \in Used :
        (slot[s].promised # -1 /\ slot[s].at >= slot[s].promised) =>
            slot[s].status # 429

\* A request of key k arrives in this step and is handled in slot s.
Arrives(s, k) ==
    /\ slot[s].pc \in {"idle", "done"}
    /\ slot'[s].pc \in {"json", "done"}
    /\ seen' # seen
    /\ slot'[s].key = k
    /\ slot'[s].at = now

\* C4: for a key whose counter has reached 30, the first request arriving
\* after the window's reset time has passed (more than 60 seconds after the
\* window's first request) is admitted and starts a new window: count 1,
\* reset time 60 seconds after that request.
C4_NewWindowAfterReset ==
    [][\A s \in Slots : \A k \in DOMAIN hits :
          (Arrives(s, k) /\ hits[k].count = LIMIT /\ now > hits[k].resetAt) =>
              /\ slot'[s].pc = "json"
              /\ slot'[s].status # 429
              /\ hits'[k] = [count |-> 1, resetAt |-> now + WINDOW_MS]]_vars

\* A key that was answered 429 is admitted in a new window, and the table
\* holds the new window's entry.
C4_Witness ==
    \E s \in Used :
        /\ slot[s].promised # -1
        /\ slot[s].status # 429
        /\ slot[s].at > WINDOW_MS
        /\ slot[s].ordinal = 1
        /\ hits[slot[s].key] = [count |-> 1, resetAt |-> slot[s].at + WINDOW_MS]

-----------------------------------------------------------------------------
(* Clamping and validation. *)

\* The text of the supplied message m, as a string.
Supplied(m) == ContentToString(m.content)

\* Text c is a prefix of text t (both run-length encoded).
RECURSIVE IsPrefixOf(_, _)
IsPrefixOf(c, t) ==
    \/ c = <<>>
    \/ /\ t # <<>>
       /\ Head(c).c = Head(t).c
       /\ \/ Head(c).n = Head(t).n /\ IsPrefixOf(Tail(c), Tail(t))
          \/ Head(c).n < Head(t).n /\ Tail(c) = <<>>

\* The forwarded text c is what the endpoint is to make of the supplied
\* message m: m's text when it has at most 4000 characters, else its first
\* 4000 characters.
ForwardedFrom(c, m) ==
    /\ ~m.isNull
    /\ IsPrefixOf(c, Supplied(m))
    /\ TextLen(c) = Min(TextLen(Supplied(m)), MAX_CHARS_PER_MSG)

\* The positions of the supplied conversation that forwarded entry j can
\* come from.
Origins(r, j) ==
    {i \in 1..Len(r.body.messages) :
        ForwardedFrom(r.contents[j].text, r.body.messages[i])}

\* The positions of the last MAX_MESSAGES supplied messages.
LastPositions(r) ==
    {i \in 1..Len(r.body.messages) : i > Len(r.body.messages) - MAX_MESSAGES}

\* The supplied message is dropped as empty: null, or white space only in
\* its first 4000 characters.
DroppedAsEmpty(m) ==
    \A k \in 1..Len(Supplied(m)) :
        TextLen(SubSeq(Supplied(m), 1, k - 1)) < MAX_CHARS_PER_MSG
            => Supplied(m)[k].c \in WS

\* The requests whose conversation reached the provider.
Forwarding == {s \in Slots : slot[s].calls > 0}

\* C5: for a supplied conversation longer than 20 messages, only messages
\* of the last 20 are forwarded, in their original order, also when some of
\* the last 20 are dropped as empty; when none of the last 20 is empty,
\* exactly those 20 are forwarded.
C5_OnlyLast20Forwarded ==
    \A s \in Forwarding :
        LET r == slot[s]
            n == Len(r.body.messages)
        IN n > MAX_MESSAGES =>
            /\ Len(r.contents) <= MAX_MESSAGES
            /\ \A j \in 1..Len(r.contents) :
                  /\ Origins(r, j) # {}
                  /\ Origins(r, j) \subseteq LastPositions(r)
            /\ \A j, k \in 1..Len(r.contents) :
                  j < k => \A a \in Origins(r, j), b \in Origins(r, k) : a < b
            /\ (\A i \in LastPositions(r) : ~DroppedAsEmpty(r.body.messages[i])) =>
                  /\ Len(r.contents) = MAX_MESSAGES
                  /\ \A j \in 1..MAX_MESSAGES :
                        Origins(r, j) = {n - MAX_MESSAGES + j}

\* A conversation of more than 20 messages forwarded with one of its last 20
\* dropped as empty.
C5_Witness ==
    \E s \in Forwarding :
        /\ Len(slot[s].body.messages) > MAX_MESSAGES
        /\ Len(slot[s].contents) = MAX_MESSAGES - 1

\* C6: a retained message whose content is longer than 4000 characters is
\* forwarded with exactly the first 4000 characters of the content; no
\* forwarded content is longer than 4000 characters.
C6_TruncatedTo4000 ==
    \A s \in Forwarding :
        LET r == slot[s] IN
        /\ \A j \in 1..Len(r.contents) :
              TextLen(r.contents[j].text) <= MAX_CHARS_PER_MSG
        /\ \A i \in LastPositions(r) :
              LET m == r.body.messages[i] IN
              (TextLen(Supplied(m)) > MAX_CHARS_PER_MSG /\ ~DroppedAsEmpty(m)) =>
                  \E j \in 1..Len(r.contents) :
                      /\ TextLen(r.contents[j].text) = MAX_CHARS_PER_MSG
                      /\ IsPrefixOf(r.contents[j].text, Supplied(m))
                      /\ Len(r.contents) - j = Cardinality(
                            {k \in LastPositions(r) :
                                k > i /\ ~DroppedAsEmpty(r.body.messages[k])})

\* A content of more than 4000 characters forwarded with 4000.
C6_Witness ==
    \E s \in Forwarding :
        \E i \in LastPositions(slot[s]), j \in 1..Len(slot[s].contents) :
            /\ TextLen(Supplied(slot[s].body.messages[i])) > MAX_CHARS_PER_MSG
            /\ TextLen(slot[s].contents[j].text) = MAX_CHARS_PER_MSG
            /\ IsPrefixOf(slot[s].contents[j].text, Supplied(slot[s].body.messages[i]))

\* The body's messages field is missing or is not an array.
NoMessagesArray(b) == b.shape \in {"nomessages", "nonarray"}

AllEmpty(b) ==
    /\ b.shape = "array"
    /\ \A i \in 1..Len(b.messages) :
          ~b.messages[i].isNull /\ DroppedAsEmpty(b.messages[i])

\* C8 as stated: a request whose conversation consists solely of messages
\* that are empty or white space only after truncation to 4000 characters
\* is answered 400, and nothing is forwarded to the provider.
C8_AllEmpty400 ==
    \A s \in Done :
        AllEmpty(slot[s].body) => slot[s].status = 400 /\ slot[s].calls = 0

\* C8, amended: such a request, when the rate limiter admits it, is answered
\* 400 and nothing is forwarded to the provider; a request of a key at its
\* cap is answered 429, and nothing is forwarded either.
C8_AllEmpty400WhenAdmitted ==
    \A s \in Used :
        AllEmpty(slot[s].body) =>
            /\ slot[s].calls = 0
            /\ slot[s].contents = <<>>
            /\ slot[s].pc # "provider"
            /\ slot[s].pc = "done" =>
                  \/ /\ slot[s].ordinal <= LIMIT
                     /\ slot[s].status = 400
                     /\ slot[s].reply = ErrorReply("No usable messages")
                  \/ /\ slot[s].ordinal > LIMIT
                     /\ slot[s].status = 429

\* A conversation of white space, one message of it white space only once
\* truncated, answered 400.
C8_Witness ==
    \E s \in Done :
        /\ AllEmpty(slot[s].body)
        /\ \E i \in 1..Len(slot[s].body.messages) :
              TextLen(Supplied(slot[s].body.messages[i])) > MAX_CHARS_PER_MSG
        /\ slot[s].status = 400

-----------------------------------------------------------------------------
(* Failures and the credential. *)

\* The request passed validation: messages is an array that clamps to a
\* non-empty list.
Valid(b) == b.shape = "array" /\ ~clampThrows(b.messages) /\ clampMessages(b.messages) # <<>>

C10_NoStartupFailure ==
    /\ module # "crashed"
    /\ ai # "load"
    /\ \A s \in Done :
          (~credential /\ slot[s].status = 500 /\ slot[s].body.shape \notin {"invalid", "null"}
              /\ ~clampRaises(slot[s].body)) => Valid(slot[s].body)

-----------------------------------------------------------------------------
(* The window of a key. *)

\* C13: the window is fixed. The reset time of a key's entry is set only by
\* the request that creates the entry or replaces an expired one (to 60
\* seconds after that request, with count 1); a later request of the window
\* leaves the reset time unchanged; a request answered 429 leaves count and
\* reset time unchanged; and no request changes the entry of another key.
C13_FixedWindow ==
    [][/\ \A k \in DOMAIN hits :
            /\ k \in DOMAIN hits'
            /\ hits'[k] # hits[k] => \E s \in Slots : Arrives(s, k)
            /\ hits'[k].resetAt # hits[k].resetAt =>
                  /\ now > hits[k].resetAt
                  /\ hits'[k] = [count |-> 1, resetAt |-> now + WINDOW_MS]
            /\ \A s \in Slots :
                  (Arrives(s, k) /\ now <= hits[k].resetAt) =>
                      /\ hits'[k].resetAt = hits[k].resetAt
                      /\ slot'[s].status = 429 => hits'[k] = hits[k]
       /\ \A k \in DOMAIN hits' \ DOMAIN hits :
            /\ \E s \in Slots : Arrives(s, k)
            /\ hits'[k] = [count |-> 1, resetAt |-> now + WINDOW_MS]]_vars

\* Two keys with windows that started at different times, one of them at its
\* cap and answered 429 later in its window than the request that opened it.
C13_Witness ==
    \E s \in Done : \E k \in DOMAIN hits :
        /\ slot[s].key # k
        /\ slot[s].status = 429
        /\ hits[slot[s].key].count = LIMIT
        /\ hits[slot[s].key].resetAt # hits[k].resetAt
        /\ slot[s].at > hits[slot[s].key].resetAt - WINDOW_MS
        /\ slot[s].at > hits[k].resetAt - WINDOW_MS

-----------------------------------------------------------------------------
(* The client key. *)

\* The key as the specification describes it: the first entry of the
\* forwarded-address header when it supplies an address, else the value of
\* the real-address header, else "unknown".
SuppliesAddress(h) == h.present /\ Trim(SplitFirst(h.v)) # <<>>

DescribedKey(xff, xri) ==
    IF SuppliesAddress(xff) THEN Trim(SplitFirst(xff.v))
    ELSE IF xri.present THEN xri.v
    ELSE Unknown

\* C14: every request is counted under the first entry of its
\* x-forwarded-for header when that entry supplies an address, otherwise under
\* the value of its x-real-ip header, otherwise under "unknown"; a request
\* whose x-forwarded-for header is present but empty, or whose first entry is
\* blank, falls back to x-real-ip, and the requests with neither header share
\* the one counter of "unknown".
C14_KeyFallsBack ==
    \A s \in Used :
        /\ slot[s].key = DescribedKey(slot[s].xff, slot[s].xri)
        /\ slot[s].key \in DOMAIN hits
        /\ (~slot[s].xff.present /\ ~slot[s].xri.present) => slot[s].key = Unknown

-----------------------------------------------------------------------------
(* Calls and responses of a request. *)

\* C16: the provider is called at most once per request, and only for a
\* request that the rate limiter admitted, whose messages is an array and
\* whose clamped list is not empty; a failed call is not retried (the request
\* is answered when the call settles); and a request receives one response,
\* with status 200, 400, 429 or 500, which nothing changes afterwards (a slot
\* that holds a response changes only by taking the next request).
C16_OneCallOneResponse ==
    /\ [](\A s \in Slots :
            /\ slot[s].calls <= 1
            /\ slot[s].calls = 1 =>
                  /\ slot[s].status # 429
                  /\ slot[s].ordinal \in 1..LIMIT
                  /\ isArray(slot[s].body)
                  /\ ~clampRaises(slot[s].body)
                  /\ clampMessages(slot[s].body.messages) # <<>>
            /\ slot[s].pc = "provider" => slot[s].calls = 1
            /\ slot[s].pc = "done" => slot[s].status \in {200, 400, 429, 500}
            /\ slot[s].pc \in {"json", "provider"} =>
                  slot[s].status = 0 /\ slot[s].reply = NoReply)
    /\ [][\A s \in Slots :
            /\ (slot[s].pc = "provider" /\ slot'[s] # slot[s]) =>
                  slot'[s].pc = "done" /\ slot'[s].calls = 1
            /\ (slot[s].pc = "done" /\ slot'[s] # slot[s]) =>
                  Arrive(s, slot'[s].xff, slot'[s].xri, slot'[s].body)]_vars

\* A request whose one provider call failed and was answered 500, and that
\* was the last its key's window admitted.
C16_Witness ==
    \E s \in Done :
        /\ slot[s].calls = 1
        /\ slot[s].status = 500
        /\ slot[s].thrown = Err(FetchFailedMessage)
        /\ slot[s].ordinal = LIMIT

-----------------------------------------------------------------------------
(* Concurrent requests. *)

\* C18: whatever the interleaving of requests, requests suspended at their
\* awaits included, the count of every entry is between 1 and 30, it is the
\* number of requests of the key's window that were admitted, and no request
\* beyond the 30th of a window is admitted.
C18_CountWithinCap ==
    /\ \A k \in DOMAIN hits :
          /\ hits[k].count \in 1..LIMIT
          /\ k \in DOMAIN seen
          /\ hits[k].count = Min(seen[k].n, LIMIT)
    /\ \A s \in Used :
          /\ slot[s].status # 429 => slot[s].ordinal \in 1..LIMIT
          /\ slot[s].ordinal > LIMIT => slot[s].status = 429

\* The 30th request of a window suspended at one of its awaits while the
\* 31st arrives and is rejected.
C18_Witness ==
    \E s \in Slots : \E t \in Slots :
        /\ slot[s].pc \in {"json", "provider"}
        /\ slot[s].ordinal = LIMIT
        /\ slot[t].pc = "done"
        /\ slot[t].status = 429
        /\ slot[t].key = slot[s].key
        /\ slot[t].resetAt = slot[s].resetAt
        /\ hits[slot[s].key].count = LIMIT

-----------------------------------------------------------------------------
(* The rate limit and the body. *)

\* C19: the rate limit is applied before the body is read.  A request that is
\* not answered 429 consumes one unit of its key's window when it arrives,
\* and keeps it whatever its final status (no step of its handler changes
\* the table afterwards); a request of a key at its cap is answered 429
\* whether its body is valid or not, so 30 requests with invalid bodies make
\* the next valid request of the window a 429, and an invalid body at the cap
\* gets 429, not 400.
C19_LimitBeforeBody ==
    /\ [](\A s \in Used :
            /\ slot[s].status # 429 =>
                  hits[slot[s].key].count = slot[s].ordinal
            /\ slot[s].ordinal > LIMIT =>
                  slot[s].pc = "done" /\ slot[s].status = 429)
    /\ [][\A s \in Slots :
            /\ \A k \in DOMAIN hits :
                  (Arrives(s, k) /\ slot'[s].status # 429) =>
                      hits'[k].count =
                          IF now > hits[k].resetAt THEN 1 ELSE hits[k].count + 1
            /\ slot[s].pc \in {"json", "provider"} => hits' = hits
            /\ \A k \in DOMAIN hits :
                  (/\ slot[s].pc = "done"
                   /\ slot[s].status \in {400, 500}
                   /\ slot[s].key = k
                   /\ hits[k].count = LIMIT
                   /\ now <= hits[k].resetAt
                   /\ Arrives(s, k)) => slot'[s].status = 429]_vars

\* A valid request answered 429 without a provider call, as the 31st of its
\* window.
C19_Witness ==
    \E s \in Done :
        /\ Valid(slot[s].body)
        /\ slot[s].status = 429
        /\ slot[s].ordinal = LIMIT + 1
        /\ slot[s].calls = 0

-----------------------------------------------------------------------------
(* The page. *)

\* The steps of the page's handlers, as the history variables show them.
SubmitStep == event' \in {"click", "enter"} /\ (event' # event \/ sent' # sent)
ClearStep == event' = "clear" /\ event # "clear"
SettleStep(i) ==
    /\ i \in 1..Len(inflight)
    /\ inflight' = SubSeq(inflight, 1, i - 1) \o SubSeq(inflight, i + 1, Len(inflight))

=============================================================================
